---------------------------- MODULE Spec2Model ----------------------------
(***************************************************************************)
(* A model of the bundler script src/index.mjs (the id-assigning variant,  *)
(* lines 133-290): the entry-point check, the breadth-first dependency     *)
(* graph loop over seen / modules / queue / id, the serializer loop that   *)
(* rewrites require call sites with a regular expression, and the final    *)
(* assembly and output of the bundle.                                      *)
(*                                                                         *)
(* Text is modelled down to what the regular expression distinguishes: a   *)
(* file is a sequence of call-site tokens  fn(q arg q)  and a specifier is *)
(* a sequence of characters, so that the pattern built from a specifier    *)
(* (escaping, then regular-expression matching) is computed, not assumed.  *)
(***************************************************************************)
EXTENDS Integers, Sequences, FiniteSets, TLC

(***************************************************************************)
(* Bounds of the model.                                                    *)
(***************************************************************************)
\* Largest total number of require call sites in a file system of GraphInit.
MaxRequires == 3
\* Largest number of call-site tokens in the entry file of TextInit.
MaxTokens == 3
\* Largest total number of require call sites in a file system of FairInit.
MaxCycleRequires == 3

(***************************************************************************)
(* Characters, specifiers, paths.  A path is the base name of a .js file   *)
(* of the flat project directory, as a sequence of characters.             *)
(***************************************************************************)
pA == <<"a">>
pB == <<"b">>
pC == <<"c">>
pD == <<"d">>
pAA == <<"a", "a">>
pAPlus == <<"a", "+">>

GraphPaths == {pA, pB, pC, pD}
CyclePaths == {pA, pB, pC}

DotSlash == <<".", "/">>
DotJs == <<".", "j", "s">>

\* The specifier that names file p relative to the requiring file.
SpecifierOf(p) == DotSlash \o p

QuoteChars == {"'", "\""}

(***************************************************************************)
(* Tokens of a file's text.  A call site  fn(q arg q)  with a string       *)
(* argument has id = -1; the text  require(<id>)  the serializer writes    *)
(* has q = "" and the id.                                                  *)
(***************************************************************************)
StrCall(fn, q, arg) == [fn |-> fn, q |-> q, arg |-> arg, id |-> -1]

IdCall(n) == [fn |-> "require", q |-> "", arg |-> <<>>, id |-> n]

IsStrRequire(t) == t.fn = "require" /\ t.q \in QuoteChars

(***************************************************************************)
(* JavaScript Map: an insertion-ordered sequence of [k, v] entries.        *)
(***************************************************************************)
MapKeys(m) == {m[i].k : i \in 1..Len(m)}

MapHas(m, key) == key \in MapKeys(m)

MapIndex(m, key) == CHOOSE i \in 1..Len(m) : m[i].k = key

MapGet(m, key) == m[MapIndex(m, key)].v

\* Map.prototype.set: overwrite in place, or append a new entry.
MapSet(m, key, val) ==
    IF MapHas(m, key)
    THEN [m EXCEPT ![MapIndex(m, key)] = [k |-> key, v |-> val]]
    ELSE Append(m, [k |-> key, v |-> val])

MapValues(m) == [i \in 1..Len(m) |-> m[i].v]

SeqRange(s) == {s[i] : i \in 1..Len(s)}

Min(S) == CHOOSE x \in S : \A y \in S : x <= y

Max(S) == CHOOSE x \in S : \A y \in S : x >= y

\* The elements of s in first-occurrence order, each once.  (Stated as a
\* function applied to s, so that s is evaluated once.)
Distinct(s) ==
    LET distinctOf[t \in {s}] ==
            LET keep == {i \in 1..Len(t) : \A j \in 1..(i - 1) : t[j] /= t[i]}
            IN [n \in 1..Cardinality(keep) |->
                   t[CHOOSE i \in keep : Cardinality({j \in keep : j <= i}) = n]]
    IN distinctOf[s]

\* new Map(pairs): every pair is set in order, so a key stands where it
\* first came and holds the value that came last.
MapFromPairs(pairs) ==
    LET mapOf[ps \in {pairs}] ==
            LET keys == Distinct([i \in 1..Len(ps) |-> ps[i].k])
            IN [n \in 1..Len(keys) |->
                   [k |-> keys[n],
                    v |-> ps[Max({i \in 1..Len(ps) : ps[i].k = keys[n]})].v]]
    IN mapOf[pairs]

Reverse(s) == [i \in 1..Len(s) |-> s[Len(s) + 1 - i]]

(***************************************************************************)
(* The program's state.                                                    *)
(***************************************************************************)
VARIABLES
    fs,        \* the file index and the files' text: path -> sequence of tokens
    pc,        \* where the script is
    error,     \* the error the script died with, "none" while it lives
    seen,      \* const seen = new Set()
    modules,   \* const modules = new Map()
    queue,     \* const queue = [entryPoint]
    id,        \* let id = 0
    serI,      \* position of the serializer's outer loop in the reversed modules
    depJ,      \* position of its inner loop in metadata.dependencyMap
    code,      \* let { id, code } = metadata: the text being rewritten
    output,    \* const output = []
    emitted,   \* what left the program: "none", "file" or "stdout"
    tasks,     \* the transform stage: module path -> its transformFile call
    errorModule, \* the module path an error names, <<>> when it names none
    registry,  \* the bundle's runtime: id -> the factory define() registered
    cache,     \* the runtime's module instances: id -> [exports]
    stack,     \* the factories running, innermost last: [id, pos, seen]
    invocations \* how many times each factory was invoked

\* The state of the transform stage and of the bundle's runtime.
stageVars == <<tasks, errorModule>>

runtimeVars == <<registry, cache, stack, invocations>>

vars == <<fs, pc, error, seen, modules, queue, id, serI, depJ, code, output, emitted,
          tasks, errorModule, registry, cache, stack, invocations>>

\* resolve(process.cwd(), options.entryPoint ?? '')
entryPoint == pA

(***************************************************************************)
(* Collaborators: the file index and the resolver.                         *)
(***************************************************************************)
\* hasteFS.exists(path)
Exists(path) == path \in DOMAIN fs

\* The specifiers of the require call sites of a text, in order of appearance.
ScanRequires(text) ==
    LET sites == SelectSeq(text, IsStrRequire)
    IN Distinct([i \in 1..Len(sites) |-> sites[i].arg])

\* hasteFS.getDependencies(module): the distinct specifiers the file requires.
getDependencies(module) == ScanRequires(fs[module])

HasPrefix(s, p) == Len(s) >= Len(p) /\ SubSeq(s, 1, Len(p)) = p

HasSuffix(s, p) == Len(s) >= Len(p) /\ SubSeq(s, Len(s) - Len(p) + 1, Len(s)) = p

\* The file a relative specifier names: "./x" or "./x.js" names x.js.
Candidate(name) ==
    LET rest == SubSeq(name, Len(DotSlash) + 1, Len(name))
    IN IF HasSuffix(rest, DotJs) /\ Len(rest) > Len(DotJs)
       THEN SubSeq(rest, 1, Len(rest) - Len(DotJs))
       ELSE rest

\* resolver.resolveModule(module, dependencyName) returns a path ...
Resolves(name) == HasPrefix(name, DotSlash) /\ Exists(Candidate(name))

\* ... or throws.
resolveModule(name) == Candidate(name)

(***************************************************************************)
(* The pattern  new RegExp(`require\\(('|")${escaped name}\\1\\)`)  and    *)
(* String.prototype.replace with it.                                       *)
(***************************************************************************)
\* dependencyName.replace(/[\/.]/g, '\\$&'): a backslash before each '.' and '/'.
EscapeName(name) ==
    LET esc[i \in 0..Len(name)] ==
            IF i = 0 THEN <<>>
            ELSE esc[i - 1] \o (IF name[i] \in {"/", "."}
                                THEN <<"\\", name[i]>>
                                ELSE <<name[i]>>)
    IN esc[Len(name)]

\* The atoms of a pattern source: "\c" is the character c, "." is any
\* character, another character is itself, and a "+" after an atom repeats it.
ParseRegex(src) ==
    LET parse[i \in 1..(Len(src) + 1)] ==
            IF i > Len(src) THEN <<>>
            ELSE LET escaped == src[i] = "\\" /\ i < Len(src)
                     last == IF escaped THEN i + 1 ELSE i
                     plus == last < Len(src) /\ src[last + 1] = "+"
                     atom == [any  |-> (~escaped /\ src[i] = "."),
                              ch   |-> src[last],
                              plus |-> plus]
                 IN <<atom>> \o parse[IF plus THEN last + 2 ELSE last + 1]
    IN parse[1]

\* Whether the atoms match the whole of str.
RegexMatch(atoms, str) ==
    LET m[i \in 1..(Len(atoms) + 1), j \in 1..(Len(str) + 1)] ==
            IF i > Len(atoms) THEN j > Len(str)
            ELSE IF j > Len(str) THEN FALSE
            ELSE /\ (atoms[i].any \/ atoms[i].ch = str[j])
                 /\ (m[i + 1, j + 1] \/ (atoms[i].plus /\ m[i, j + 1]))
    IN m[1, 1]

\* Whether the pattern built for dependencyName matches at token t: the
\* literal "require(", a quote, the name's pattern, the same quote, ")".
PatternMatches(dependencyName, t) ==
    /\ t.fn = "require"
    /\ t.q \in QuoteChars
    /\ \E atoms \in {ParseRegex(EscapeName(dependencyName))} : RegexMatch(atoms, t.arg)

\* code.replace(pattern, `require(${dependency.id})`): the pattern has no g
\* flag, so the leftmost match alone is replaced.
Replace(text, dependencyName, depId) ==
    LET hits == {i \in 1..Len(text) : PatternMatches(dependencyName, text[i])}
    IN IF hits = {} THEN text
       ELSE [text EXCEPT ![Min(hits)] = IdCall(depId)]

(***************************************************************************)
(* Pieces of the graph loop.                                               *)
(***************************************************************************)
\* The entry check left out.
EntryExistsUnchecked == TRUE

\* if (!hasteFS.exists(entryPoint)) throw
EntryExists == Exists(entryPoint)

\* The visited check left out.
AlreadySeenNever(module) == FALSE

\* if (seen.has(module)) continue
AlreadySeen(module) == module \in seen

\* ++id in place of id++.
AssignIdPreIncrement(counter) == counter + 1

\* id: id++  -- the record gets the counter's value before the increment
AssignId(counter) == counter

\* queue.unshift in place of queue.push: a depth-first walk.
EnqueueFront(q, dependencyMap) == MapValues(dependencyMap) \o q

\* Only the first dependency is pushed.
EnqueueFirstOnly(q, dependencyMap) ==
    q \o (IF dependencyMap = <<>> THEN <<>> ELSE <<dependencyMap[1].v>>)

\* queue.push(...dependencyMap.values())
Enqueue(q, dependencyMap) == q \o MapValues(dependencyMap)

\* Only the first specifier of the file is resolved and kept.
DependencyPairsFirstOnly(module) ==
    LET all == getDependencies(module)
        names == IF all = <<>> THEN <<>> ELSE <<all[1]>>
    IN [i \in 1..Len(names) |-> [k |-> names[i], v |-> resolveModule(names[i])]]

\* The pairs [dependencyName, resolver.resolveModule(module, dependencyName)]
DependencyPairs(module) ==
    LET names == getDependencies(module)
    IN [i \in 1..Len(names) |-> [k |-> names[i], v |-> resolveModule(names[i])]]

\* Whether every resolveModule call made for module returns.
AllResolve(module) == \A n \in SeqRange(getDependencies(module)) : Resolves(n)

\* The modules taken in insertion order.
SerializationOrderForward(ms) == ms

\* Array.from(modules).reverse()
SerializationOrder(ms) == Reverse(ms)

\* The first text the serializer holds: that of the first module of its order.
FirstCode(ms) == IF ms = <<>> THEN <<>> ELSE SerializationOrder(ms)[1].v.code

\* wrapModule(id, code)
wrapModule(mid, text) == [kind |-> "define", id |-> mid, code |-> text]

\* fs.readFileSync('./require.js', 'utf-8')
RuntimeSnippet == [kind |-> "runtime", id |-> -1, code |-> <<>>]

\* ['requireModule(0);']
Bootstrap == [kind |-> "requireModule", id |-> 0, code |-> <<>>]

(***************************************************************************)
(* The file systems the script is run on.                                  *)
(***************************************************************************)
RECURSIVE SeqsOfLen(_, _)
SeqsOfLen(S, n) ==
    IF n = 0 THEN {<<>>}
    ELSE {Append(s, x) : s \in SeqsOfLen(S, n - 1), x \in S}

SeqsUpTo(S, n) == UNION {SeqsOfLen(S, k) : k \in 0..n}

\* The file system in which the files of S exist, with the given texts.
FsOf(S, texts) == [p \in S |-> texts[p]]

\* The call sites require('./x') naming the files of ps.
RequireTokens(ps) == {StrCall("require", "'", SpecifierOf(p)) : p \in ps}

\* The strings and call sites of the text-rich file systems.
TextSpecifiers == {SpecifierOf(pA), SpecifierOf(pAA), SpecifierOf(pAPlus), SpecifierOf(pA) \o DotJs}

TextTokens ==
    {StrCall("require", q, s) : q \in QuoteChars, s \in TextSpecifiers}
    \cup {StrCall("log", "'", s) : s \in TextSpecifiers}

(***************************************************************************)
(* The script.                                                             *)
(***************************************************************************)
\* No transform was submitted and no error names a module.
StageIdle == tasks = <<>> /\ errorModule = <<>>

\* No bundle is loaded.
RuntimeIdle == registry = <<>> /\ cache = <<>> /\ stack = <<>> /\ invocations = <<>>

\* The script's state when it starts on file system f.
StartOn(f) ==
    /\ StageIdle
    /\ RuntimeIdle
    /\ fs = f
    /\ pc = "start"
    /\ error = "none"
    /\ seen = {}
    /\ modules = <<>>
    /\ queue = <<>>
    /\ id = 0
    /\ serI = 0
    /\ depJ = 0
    /\ code = <<>>
    /\ output = <<>>
    /\ emitted = "none"

\* Graph shapes: any subset of a.js .. d.js exists; each file is a list of
\* require('./x') calls naming any of the four, with at most MaxRequires
\* calls in all.
GraphInit ==
    \E ta \in SeqsUpTo(RequireTokens(GraphPaths), MaxRequires) :
    \E tb \in SeqsUpTo(RequireTokens(GraphPaths), MaxRequires - Len(ta)) :
    \E tc \in SeqsUpTo(RequireTokens(GraphPaths), MaxRequires - Len(ta) - Len(tb)) :
    \E td \in SeqsUpTo(RequireTokens(GraphPaths), MaxRequires - Len(ta) - Len(tb) - Len(tc)) :
    \E S \in SUBSET GraphPaths :
        StartOn(FsOf(S, (pA :> ta) @@ (pB :> tb) @@ (pC :> tc) @@ (pD :> td)))

\* Texts: a.js, aa.js and a+.js exist; the entry a.js is any sequence of at
\* most MaxTokens call sites, require calls in either quote style and other
\* calls with the same strings.
TextInit ==
    \E ta \in SeqsUpTo(TextTokens, MaxTokens) :
        StartOn((pA :> ta) @@ (pAA :> <<>>) @@ (pAPlus :> <<>>))

Init == GraphInit \/ TextInit

\* Smaller graph shapes, for the runs that check termination: any subset of
\* a.js .. c.js exists, each file a list of require('./x') calls naming any of
\* the three, with at most MaxCycleRequires calls in all; two-module cycles,
\* three-module cycles and self-requires are among them.
FairInit ==
    \E ta \in SeqsUpTo(RequireTokens(CyclePaths), MaxCycleRequires) :
    \E tb \in SeqsUpTo(RequireTokens(CyclePaths), MaxCycleRequires - Len(ta)) :
    \E tc \in SeqsUpTo(RequireTokens(CyclePaths), MaxCycleRequires - Len(ta) - Len(tb)) :
    \E S \in SUBSET CyclePaths :
        StartOn(FsOf(S, (pA :> ta) @@ (pB :> tb) @@ (pC :> tc)))

\* Lines 168-172, 192-195: the entry check, then the loop's initial state.
CheckEntry ==
    /\ pc = "start"
    /\ IF EntryExists
       THEN /\ pc' = "build"
            /\ queue' = <<entryPoint>>
            /\ error' = error
       ELSE /\ pc' = "failed"
            /\ error' = "entry"
            /\ queue' = queue
    /\ UNCHANGED <<stageVars, runtimeVars, fs, seen, modules, id, serI, depJ, code, output, emitted>>

\* The revisit consumes an id.
SkipSeenBumpsId ==
    /\ pc = "build"
    /\ queue /= <<>>
    /\ AlreadySeen(Head(queue))
    /\ queue' = Tail(queue)
    /\ id' = id + 1
    /\ UNCHANGED <<stageVars, runtimeVars, fs, pc, error, seen, modules, serI, depJ, code, output, emitted>>

\* Lines 199-204: the dequeued path was processed before.
SkipSeen ==
    /\ pc = "build"
    /\ queue /= <<>>
    /\ AlreadySeen(Head(queue))
    /\ queue' = Tail(queue)
    /\ UNCHANGED <<stageVars, runtimeVars, fs, pc, error, seen, modules, id, serI, depJ, code, output, emitted>>

\* Lines 208-215: new Map(getDependencies(module).map(...))
DependencyMapOf(module) == MapFromPairs(DependencyPairs(module))

\* The counter is not read: every record is numbered 0.
MetadataNumberedZero(module, counter, dependencyMap) ==
    [id |-> 0, code |-> fs[module], dependencyMap |-> dependencyMap]

\* Lines 221-227: the record of a module.
Metadata(module, counter, dependencyMap) ==
    [id |-> AssignId(counter), code |-> fs[module], dependencyMap |-> dependencyMap]

\* Lines 199-229: one iteration that records the dequeued path.
ProcessModule ==
    /\ pc = "build"
    /\ queue /= <<>>
    /\ ~AlreadySeen(Head(queue))
    /\ AllResolve(Head(queue))
    /\ seen' = seen \cup {Head(queue)}
    /\ id' = id + 1
    /\ \E dependencyMap \in {DependencyMapOf(Head(queue))} :
          /\ modules' = MapSet(modules, Head(queue), Metadata(Head(queue), id, dependencyMap))
          /\ queue' = Enqueue(Tail(queue), dependencyMap)
    /\ UNCHANGED <<stageVars, runtimeVars, fs, pc, error, serI, depJ, code, output, emitted>>

\* The resolver's error caught and dropped: the loop goes on without the module.
ResolveSwallowed ==
    /\ pc = "build"
    /\ queue /= <<>>
    /\ ~AlreadySeen(Head(queue))
    /\ ~AllResolve(Head(queue))
    /\ seen' = seen \cup {Head(queue)}
    /\ queue' = Tail(queue)
    /\ UNCHANGED <<stageVars, runtimeVars, fs, pc, error, modules, id, serI, depJ, code, output, emitted>>

\* Lines 199-213: resolveModule throws inside the iteration, after seen.add.
ResolveThrows ==
    /\ pc = "build"
    /\ queue /= <<>>
    /\ ~AlreadySeen(Head(queue))
    /\ ~AllResolve(Head(queue))
    /\ seen' = seen \cup {Head(queue)}
    /\ queue' = Tail(queue)
    /\ pc' = "failed"
    /\ error' = "resolve"
    /\ UNCHANGED <<stageVars, runtimeVars, fs, modules, id, serI, depJ, code, output, emitted>>

\* Lines 197, 250-254: the queue is empty; the serializer's loop starts.
LoopExit ==
    /\ pc = "build"
    /\ queue = <<>>
    /\ pc' = "serialize"
    /\ serI' = 1
    /\ depJ' = 1
    /\ code' = FirstCode(modules)
    /\ UNCHANGED <<stageVars, runtimeVars, fs, error, seen, modules, queue, id, output, emitted>>

\* The entry the serializer's outer loop is at.
Current == SerializationOrder(modules)[serI]

\* The [dependencyName, dependencyPath] pair the inner loop is at.
CurrentDep == Current.v.dependencyMap[depJ]

\* The rewritten text is stored back into the module's record.
RewriteWritesBack ==
    /\ pc = "serialize"
    /\ serI <= Len(modules)
    /\ depJ <= Len(Current.v.dependencyMap)
    /\ MapHas(modules, CurrentDep.v)
    /\ code' = Replace(code, CurrentDep.k, MapGet(modules, CurrentDep.v).id)
    /\ modules' = MapSet(modules, Current.k,
                         [Current.v EXCEPT !.code =
                             Replace(code, CurrentDep.k, MapGet(modules, CurrentDep.v).id)])
    /\ depJ' = depJ + 1
    /\ UNCHANGED <<stageVars, runtimeVars, fs, pc, error, seen, queue, id, serI, output, emitted>>

\* Lines 255-267: one iteration of the inner loop rewrites the held text.
Rewrite ==
    /\ pc = "serialize"
    /\ serI <= Len(modules)
    /\ depJ <= Len(Current.v.dependencyMap)
    /\ MapHas(modules, CurrentDep.v)
    /\ code' = Replace(code, CurrentDep.k, MapGet(modules, CurrentDep.v).id)
    /\ depJ' = depJ + 1
    /\ UNCHANGED <<stageVars, runtimeVars, fs, pc, error, seen, modules, queue, id, serI, output, emitted>>

\* Lines 268-270, 253-254: the module is wrapped; the next one is taken up.
Wrap ==
    /\ pc = "serialize"
    /\ serI <= Len(modules)
    /\ depJ > Len(Current.v.dependencyMap)
    /\ output' = Append(output, wrapModule(Current.v.id, code))
    /\ serI' = serI + 1
    /\ depJ' = 1
    /\ code' = IF serI < Len(modules)
               THEN SerializationOrder(modules)[serI + 1].v.code
               ELSE <<>>
    /\ UNCHANGED <<stageVars, runtimeVars, fs, pc, error, seen, modules, queue, id, emitted>>

\* Lines 272-277: the runtime in front, the bootstrap call behind.
Assemble ==
    /\ pc = "serialize"
    /\ serI > Len(modules)
    /\ output' = <<RuntimeSnippet>> \o output \o <<Bootstrap>>
    /\ pc' = "assembled"
    /\ UNCHANGED <<stageVars, runtimeVars, fs, error, seen, modules, queue, id, serI, depJ, code, emitted>>

\* Lines 279-289: written to options.output, or printed.
WriteOutput ==
    /\ pc = "assembled"
    /\ \E hasOutputOption \in BOOLEAN :
          emitted' = IF hasOutputOption THEN "file" ELSE "stdout"
    /\ pc' = "done"
    /\ UNCHANGED <<stageVars, runtimeVars, fs, error, seen, modules, queue, id, serI, depJ, code, output>>

Next ==
    \/ CheckEntry
    \/ SkipSeen
    \/ ProcessModule
    \/ ResolveThrows
    \/ LoopExit
    \/ Rewrite
    \/ Wrap
    \/ Assemble
    \/ WriteOutput

Spec == Init /\ [][Next]_vars

\* The script runs to its end: no step of it waits for anything.
FairSpec == FairInit /\ [][Next]_vars /\ WF_vars(Next)

(***************************************************************************)
(* The transform stage.  transformFile is src/worker.js; the dispatcher    *)
(* that submits one transformFile call per module, joins the results and   *)
(* hands the table to the serializer is the Module Transform Stage of the  *)
(* specification (sections 4.3 and 5).                                     *)
(***************************************************************************)
\* Largest total number of require call sites in a file system of TransformInit.
MaxTransformRequires == 2

\* The directive a transform may put in front of a module's text.
UseStrict == [fn |-> "use strict", q |-> "", arg |-> <<>>, id |-> -1]

\* The messages of the errors the transformer throws.
ErrorMessages == {"Unexpected token", "Missing semicolon"}

\* await transformAsync(code, {plugins}): it throws an error with a message,
\* or returns a result whose code is a text (the empty text included), or a
\* result without code.
TransformerOutcomes(text) ==
    {[kind |-> "throws", message |-> m, code |-> <<>>] : m \in ErrorMessages}
    \cup {[kind |-> "code", message |-> "", code |-> c] : c \in {<<UseStrict>> \o text, <<>>}}
    \cup {[kind |-> "nocode", message |-> "", code |-> <<>>]}

\* const transformResult = { code: '' }
EmptyResult == [code |-> <<>>, hasErrorMessage |-> FALSE, errorMessage |-> ""]

\* The catch block left empty: the result carries no errorMessage.
transformFileDropsMessage(text, outcome) ==
    [settled |-> "resolved",
     value |-> IF outcome.kind = "throws"
               THEN EmptyResult
               ELSE [EmptyResult EXCEPT
                        !.code = IF outcome.kind = "nocode" THEN text ELSE outcome.code]]

\* No try/catch: the transformer's error rejects the promise.
transformFileUncaught(text, outcome) ==
    IF outcome.kind = "throws"
    THEN [settled |-> "rejected",
          value |-> [EmptyResult EXCEPT !.hasErrorMessage = TRUE,
                                        !.errorMessage = outcome.message]]
    ELSE [settled |-> "resolved",
          value |-> [EmptyResult EXCEPT
                        !.code = IF outcome.kind = "nocode" THEN text ELSE outcome.code]]

\* exports.transformFile = async function (code): what the promise it
\* returns settles to, the transformer having done outcome.
transformFile(text, outcome) ==
    [settled |-> "resolved",
     value |-> IF outcome.kind = "throws"
               THEN \* catch (error): transformResult.errorMessage = error.message
                    [EmptyResult EXCEPT !.hasErrorMessage = TRUE,
                                        !.errorMessage = outcome.message]
               ELSE \* transformResult.code = transformedCode ?? code
                    [EmptyResult EXCEPT
                        !.code = IF outcome.kind = "nocode" THEN text ELSE outcome.code]]

\* A transformFile call that has not settled.
PendingTask(text) ==
    [state |-> "pending",
     input |-> text,
     outcome |-> [kind |-> "pending", message |-> "", code |-> <<>>],
     result |-> [settled |-> "pending", value |-> EmptyResult]]

\* The call for a module reported an error.
TaskFailed(t) ==
    t.state = "settled" /\ (t.result.settled = "rejected" \/ t.result.value.hasErrorMessage)

\* The graph loop is done: one transformFile call per module is submitted.
SubmitTransforms ==
    /\ pc = "build"
    /\ queue = <<>>
    /\ pc' = "transform"
    /\ tasks' = [p \in MapKeys(modules) |-> PendingTask(MapGet(modules, p).code)]
    /\ UNCHANGED <<errorModule, runtimeVars, fs, error, seen, modules, queue, id,
                   serI, depJ, code, output, emitted>>

\* One call settles; the calls settle in any order.
TransformSettles ==
    /\ pc = "transform"
    /\ \E p \in DOMAIN tasks :
          /\ tasks[p].state = "pending"
          /\ \E outcome \in TransformerOutcomes(tasks[p].input) :
                tasks' = [tasks EXCEPT ![p] =
                             [state |-> "settled",
                              input |-> @.input,
                              outcome |-> outcome,
                              result |-> transformFile(@.input, outcome)]]
    /\ UNCHANGED <<errorModule, runtimeVars, fs, pc, error, seen, modules, queue, id,
                   serI, depJ, code, output, emitted>>

\* A module's transform reported an error: the build fails, naming the module.
TransformFails ==
    /\ pc = "transform"
    /\ \E p \in DOMAIN tasks :
          /\ TaskFailed(tasks[p])
          /\ errorModule' = p
    /\ pc' = "failed"
    /\ error' = "transform"
    /\ UNCHANGED <<tasks, runtimeVars, fs, seen, modules, queue, id,
                   serI, depJ, code, output, emitted>>

\* The module table with every module's code replaced by its transformed text.
WithTransformedSource(ms) ==
    [i \in 1..Len(ms) |->
        [k |-> ms[i].k,
         v |-> [ms[i].v EXCEPT !.code = tasks[ms[i].k].result.value.code]]]

\* The barrier: every call has settled without an error; the serializer
\* starts from the transformed texts.
JoinTransforms ==
    /\ pc = "transform"
    /\ \A p \in DOMAIN tasks : tasks[p].state = "settled" /\ ~TaskFailed(tasks[p])
    /\ modules' = WithTransformedSource(modules)
    /\ pc' = "serialize"
    /\ serI' = 1
    /\ depJ' = 1
    /\ code' = FirstCode(WithTransformedSource(modules))
    /\ UNCHANGED <<stageVars, runtimeVars, fs, error, seen, queue, id, output, emitted>>

\* Graph shapes for the runs of the transform stage.
TransformInit ==
    \E ta \in SeqsUpTo(RequireTokens(CyclePaths), MaxTransformRequires) :
    \E tb \in SeqsUpTo(RequireTokens(CyclePaths), MaxTransformRequires - Len(ta)) :
    \E tc \in SeqsUpTo(RequireTokens(CyclePaths), MaxTransformRequires - Len(ta) - Len(tb)) :
    \E S \in SUBSET CyclePaths :
        StartOn(FsOf(S, (pA :> ta) @@ (pB :> tb) @@ (pC :> tc)))

TransformNext ==
    \/ CheckEntry
    \/ SkipSeen
    \/ ProcessModule
    \/ ResolveThrows
    \/ SubmitTransforms
    \/ TransformSettles
    \/ TransformFails
    \/ JoinTransforms
    \/ Rewrite
    \/ Wrap
    \/ Assemble
    \/ WriteOutput

\* The build with its transform stage, run to its end.
TransformSpec == TransformInit /\ [][TransformNext]_vars /\ WF_vars(TransformNext)

(***************************************************************************)
(* The bundle's runtime (section 4.5 of the specification): a registry of  *)
(* factories, a cache of module instances, and require(id).  A factory is  *)
(* the sequence of the require(<id>) calls of its body, in order; the      *)
(* exports of an instance are the number of statements of the body that    *)
(* have populated them.                                                    *)
(***************************************************************************)
\* Largest number of modules a loaded bundle registers.
MaxRegistered == 3
\* Largest total number of require calls in the factories of a loaded bundle.
MaxRuntimeRequires == 4

\* The innermost running factory.
Top == stack[Len(stack)]

\* A module instance is made with empty exports.
NewInstance == [exports |-> 0]

\* The instance is not put in the cache when it is made.
CacheInstallSkipped(c, n) == c

\* The new instance of module n goes into the cache c.
CacheInstall(c, n) == (n :> NewInstance) @@ c

\* Whether a cached module instance exists for n.
CacheHit(n) == n \in DOMAIN cache

\* The frame of a factory that has just been invoked.
Invoked(n) == [id |-> n, pos |-> 1, got |-> <<>>]

\* The frame after its pending require returned the exports of module n.
Returned(frame, n, exports) ==
    [id |-> frame.id,
     pos |-> frame.pos + 1,
     got |-> Append(frame.got, [id |-> n, exports |-> exports])]

\* The trailing invocation of the bundle: require(0) with nothing cached.
RequireEntry ==
    /\ DOMAIN registry /= {}
    /\ stack = <<>>
    /\ cache = <<>>
    /\ cache' = CacheInstall(cache, 0)
    /\ invocations' = [invocations EXCEPT ![0] = @ + 1]
    /\ stack' = <<Invoked(0)>>
    /\ UNCHANGED <<registry, stageVars, fs, pc, error, seen, modules, queue, id,
                   serI, depJ, code, output, emitted>>

\* require(n) in a running factory, with an instance cached for n: its
\* exports are returned at once.
RequireCached ==
    /\ stack /= <<>>
    /\ Top.pos <= Len(registry[Top.id])
    /\ CacheHit(registry[Top.id][Top.pos])
    /\ stack' = [stack EXCEPT ![Len(stack)] =
                    Returned(@, registry[Top.id][Top.pos],
                             cache[registry[Top.id][Top.pos]].exports)]
    /\ cache' = [cache EXCEPT ![Top.id].exports = Top.pos]
    /\ UNCHANGED <<registry, invocations, stageVars, fs, pc, error, seen, modules, queue, id,
                   serI, depJ, code, output, emitted>>

\* require(n) in a running factory, with no instance cached for n: a new
\* instance is made and cached, then the factory of n is invoked.
RequireMiss ==
    /\ stack /= <<>>
    /\ Top.pos <= Len(registry[Top.id])
    /\ ~CacheHit(registry[Top.id][Top.pos])
    /\ cache' = CacheInstall(cache, registry[Top.id][Top.pos])
    /\ invocations' = [invocations EXCEPT ![registry[Top.id][Top.pos]] = @ + 1]
    /\ stack' = Append(stack, Invoked(registry[Top.id][Top.pos]))
    /\ UNCHANGED <<registry, stageVars, fs, pc, error, seen, modules, queue, id,
                   serI, depJ, code, output, emitted>>

\* The innermost factory has run its body: require returns the instance's
\* exports to the caller.
FactoryReturns ==
    /\ stack /= <<>>
    /\ Top.pos > Len(registry[Top.id])
    /\ IF Len(stack) = 1
       THEN /\ stack' = <<>>
            /\ cache' = cache
       ELSE /\ stack' = [SubSeq(stack, 1, Len(stack) - 1) EXCEPT ![Len(stack) - 1] =
                            Returned(@, Top.id, cache[Top.id].exports)]
            /\ cache' = [cache EXCEPT ![stack[Len(stack) - 1].id].exports =
                                          stack[Len(stack) - 1].pos]
    /\ UNCHANGED <<registry, invocations, stageVars, fs, pc, error, seen, modules, queue, id,
                   serI, depJ, code, output, emitted>>

\* The bundle runs in a host of its own: no script state.
NoScript ==
    /\ StageIdle
    /\ fs = <<>>
    /\ pc = "none"
    /\ error = "none"
    /\ seen = {}
    /\ modules = <<>>
    /\ queue = <<>>
    /\ id = 0
    /\ serI = 0
    /\ depJ = 0
    /\ code = <<>>
    /\ output = <<>>
    /\ emitted = "none"

\* The factories registered under ids 0..n-1, the bodies given as a sequence.
RegistryOf(bodies) == [n \in 0..(Len(bodies) - 1) |-> bodies[n + 1]]

RECURSIVE BodiesOf(_, _, _)
\* The sequences of n factory bodies requiring the given ids, with at most
\* budget require calls in all.
BodiesOf(ids, n, budget) ==
    IF n = 0 THEN {<<>>}
    ELSE UNION {{<<body>> \o rest : rest \in BodiesOf(ids, n - 1, budget - Len(body))} :
                   body \in SeqsUpTo(ids, budget)}

\* A bundle has been loaded: its define calls have registered the factories
\* of ids 0..n-1, each a sequence of require calls of registered ids, with
\* at most MaxRuntimeRequires calls in all; nothing is cached or running.
RuntimeInit ==
    \E n \in 1..MaxRegistered :
    \E bodies \in BodiesOf(0..(n - 1), n, MaxRuntimeRequires) :
        /\ NoScript
        /\ registry = RegistryOf(bodies)
        /\ cache = <<>>
        /\ stack = <<>>
        /\ invocations = [m \in 0..(n - 1) |-> 0]

RuntimeNext ==
    \/ RequireEntry
    \/ RequireCached
    \/ RequireMiss
    \/ FactoryReturns

\* The loaded bundle runs: synchronous code, no step of it waits.
RuntimeSpec == RuntimeInit /\ [][RuntimeNext]_vars /\ WF_vars(RuntimeNext)

(***************************************************************************)
(* The dependency graph of the file system, read off the files and not off *)
(* the script's state.                                                     *)
(***************************************************************************)
\* The paths the specifiers of file p name.
Successors(p) ==
    IF Exists(p) THEN {Candidate(n) : n \in SeqRange(getDependencies(p))} ELSE {}

RECURSIVE Closure(_)
\* The paths reachable from the set S by zero or more dependency edges.
Closure(S) ==
    LET T == S \cup UNION {Successors(p) : p \in S}
    IN IF T = S THEN S ELSE Closure(T)

Reachable == Closure({entryPoint})

RECURSIVE DistFrom(_, _, _)
\* The length of the shortest dependency path to a reachable target from S,
\* S being the paths at distance at most k of the entry.
DistFrom(target, S, k) ==
    IF target \in S THEN k
    ELSE DistFrom(target, S \cup UNION {Successors(p) : p \in S}, k + 1)

Dist(p) == DistFrom(p, {entryPoint}, 0)

\* p lies on a dependency cycle (a self-require included).
OnCycle(p) == p \in Closure(Successors(p))

\* The graph loop has run to its end and the script goes on.
LoopFinished == pc \in {"serialize", "assembled", "done"}

IdOf(p) == MapGet(modules, p).id

RecordedIds == {modules[i].v.id : i \in 1..Len(modules)}

DepValues(p) == SeqRange(MapValues(MapGet(modules, p).dependencyMap))

(***************************************************************************)
(* C1.  When the graph loop has finished, the keys of the module table are *)
(* exactly the paths reachable from the entry, and every such path was     *)
(* recorded once: the table has one entry per key and as many records were *)
(* created (the id counter) as there are keys.                             *)
(***************************************************************************)
C1_ReachableExactlyOnce ==
    LoopFinished =>
        /\ MapKeys(modules) = Reachable
        /\ seen = Reachable
        /\ Len(modules) = Cardinality(Reachable)
        /\ id = Cardinality(Reachable)

\* A finished build in which one file is required by two modules, another
\* file exists without being reachable, and three modules are recorded.
C1_Witness ==
    /\ pc = "done"
    /\ Len(modules) = 3
    /\ DOMAIN fs = GraphPaths
    /\ \E p \in MapKeys(modules) : \E m1, m2 \in MapKeys(modules) :
          m1 /= m2 /\ p \in DepValues(m1) /\ p \in DepValues(m2)

(***************************************************************************)
(* C2.  When the graph loop has finished with N modules recorded, their    *)
(* ids are the integers 0..N-1, each once, and the entry's id is 0.        *)
(***************************************************************************)
C2_DenseIds ==
    LoopFinished =>
        /\ RecordedIds = 0..(Len(modules) - 1)
        /\ \A i, j \in 1..Len(modules) : modules[i].v.id = modules[j].v.id => i = j
        /\ MapHas(modules, entryPoint)
        /\ IdOf(entryPoint) = 0

C2_Witness == pc = "done" /\ Len(modules) = 4 /\ IdOf(pD) = 1

(***************************************************************************)
(* C4.  Ids follow breadth-first discovery: a module nearer to the entry   *)
(* has the smaller id, and of two modules first enqueued by the same       *)
(* module the one earlier in that module's dependency map has the smaller  *)
(* id.                                                                     *)
(***************************************************************************)
\* The module that first enqueued d: the requirer with the smallest id.
Discoverer(d) ==
    LET requirers == {m \in MapKeys(modules) : d \in DepValues(m)}
    IN CHOOSE m \in requirers : \A o \in requirers : IdOf(m) <= IdOf(o)

\* The first position of path d among the values of m's dependency map.
PositionIn(m, d) ==
    LET vals == MapValues(MapGet(modules, m).dependencyMap)
    IN Min({i \in 1..Len(vals) : vals[i] = d})

C4_BreadthFirstIds ==
    LoopFinished =>
        /\ \A x, y \in MapKeys(modules) : Dist(x) < Dist(y) => IdOf(x) < IdOf(y)
        /\ \A x, y \in MapKeys(modules) \ {entryPoint} :
              (/\ Discoverer(x) = Discoverer(y)
               /\ PositionIn(Discoverer(x), x) < PositionIn(Discoverer(x), y))
              => IdOf(x) < IdOf(y)

\* a requires b then c, b requires d: breadth-first and depth-first differ.
C4_Witness ==
    /\ pc = "done"
    /\ Len(modules) = 4
    /\ \E x, y, z \in MapKeys(modules) :
          /\ Dist(x) = 1 /\ Dist(y) = 1 /\ Dist(z) = 2
          /\ IdOf(x) = 1 /\ IdOf(y) = 2 /\ IdOf(z) = 3
          /\ z \in DepValues(x)

(***************************************************************************)
(* C5.  No dangling dependency: while the graph loop runs, every path in   *)
(* the dependency map of a recorded module is recorded or in the queue;    *)
(* once the loop has finished every such path is recorded, so the          *)
(* serializer's modules.get(dependencyPath) finds a record.                *)
(***************************************************************************)
C5_NoDanglingDependency ==
    /\ pc = "build" =>
          \A m \in MapKeys(modules) : \A d \in DepValues(m) :
              d \in MapKeys(modules) \/ d \in SeqRange(queue)
    /\ LoopFinished =>
          \A m \in MapKeys(modules) : \A d \in DepValues(m) : MapHas(modules, d)

\* Mid-traversal, a dependency of a recorded module is queued and not yet
\* recorded.
C5_Witness ==
    /\ pc = "build"
    /\ \E m \in MapKeys(modules) : \E d \in DepValues(m) :
          d \notin MapKeys(modules) /\ d \in SeqRange(queue)

(***************************************************************************)
(* C6.  With an entry path that is not in the file index the script fails  *)
(* at the entry check: nothing is dequeued, recorded or numbered, nothing  *)
(* is serialized and nothing is written or printed.                        *)
(***************************************************************************)
C6_EntryNotFound ==
    ~Exists(entryPoint) =>
        /\ pc \in {"start", "failed"}
        /\ pc = "failed" => error = "entry"
        /\ seen = {} /\ modules = <<>> /\ queue = <<>> /\ id = 0
        /\ serI = 0 /\ code = <<>> /\ output = <<>>
        /\ emitted = "none"

C6_Witness == ~Exists(entryPoint) /\ pc = "failed" /\ error = "entry" /\ DOMAIN fs /= {}

(***************************************************************************)
(* C7.  Once a module with a specifier that does not resolve has been      *)
(* dequeued, the script has failed: the serializer never starts on the     *)
(* module table built so far and nothing is written or printed.            *)
(***************************************************************************)
C7_ResolveFailureAborts ==
    (\E m \in seen : ~AllResolve(m)) =>
        /\ pc = "failed" /\ error = "resolve"
        /\ serI = 0 /\ code = <<>> /\ output = <<>>
        /\ emitted = "none"

\* The failure comes after two modules were recorded.
C7_Witness == pc = "failed" /\ error = "resolve" /\ Len(modules) = 2

(***************************************************************************)
(* C10.  The assembled bundle is the runtime snippet, then one             *)
(* registration per recorded module in decreasing id order, each with its  *)
(* own module's id and body, then one bootstrap call requiring id 0.       *)
(***************************************************************************)
\* The module recorded with id n.
ModuleWithId(n) == CHOOSE i \in 1..Len(modules) : modules[i].v.id = n

\* body is text with some of its require call sites rewritten to ids.
RewrittenFrom(body, text) ==
    /\ Len(body) = Len(text)
    /\ \A k \in 1..Len(text) :
          body[k] = text[k] \/ (IsStrRequire(text[k]) /\ body[k].q = "" /\ body[k].fn = "require")

C10_BundleLayout ==
    pc \in {"assembled", "done"} =>
        LET n == Len(modules)
        IN /\ Len(output) = n + 2
           /\ output[1] = RuntimeSnippet
           /\ \A i \in 1..n :
                 /\ output[i + 1].kind = "define"
                 /\ output[i + 1].id = n - i
                 /\ RewrittenFrom(output[i + 1].code, modules[ModuleWithId(n - i)].v.code)
           /\ output[n + 2] = Bootstrap
           /\ Bootstrap.id = 0

C10_Witness ==
    /\ pc = "done"
    /\ Len(modules) = 3
    /\ \A i, j \in 1..Len(modules) : i /= j => modules[i].v.code /= modules[j].v.code

(***************************************************************************)
(* C3.  On every file system, those with dependency cycles and             *)
(* self-requires included, the graph loop comes to an end: with the queue  *)
(* empty, or by the resolver's error when a reachable file is missing.  No *)
(* module is processed twice on the way (as many records are created as    *)
(* there are entries in the table), and when the loop has finished every   *)
(* reachable module on a cycle is recorded.                                *)
(***************************************************************************)
\* The entry and every file a reachable file names exist.
ResolvableGraph == \A p \in Reachable : Exists(p)

C3_CyclesTerminate ==
    /\ <>((LoopFinished /\ queue = <<>>) \/ (pc = "failed" /\ ~ResolvableGraph))
    /\ [](id = Len(modules) /\ Len(modules) = Cardinality(MapKeys(modules)))
    /\ [](LoopFinished => \A p \in Reachable : OnCycle(p) => MapHas(modules, p))

\* A finished build of a graph with a two-module cycle and a self-require.
C3_Witness ==
    /\ pc = "done"
    /\ \E p \in MapKeys(modules) : p \in DepValues(p)
    /\ \E p, q \in MapKeys(modules) : p /= q /\ q \in DepValues(p) /\ p \in DepValues(q)

(***************************************************************************)
(* C8.  In the assembled bundle, every require call site of a module whose *)
(* specifier is a key of the module's dependency map reads require(<id of  *)
(* the module recorded for it>), the second and later call sites of one    *)
(* specifier included.                                                     *)
(***************************************************************************)
C8_AllCallSitesRewritten ==
    pc \in {"assembled", "done"} =>
        \A i \in 1..Len(modules) :
            LET m == modules[i].v
                body == output[Len(modules) - m.id + 1].code
            IN \A j \in 1..Len(m.dependencyMap) : \A k \in 1..Len(m.code) :
                  (IsStrRequire(m.code[k]) /\ m.code[k].arg = m.dependencyMap[j].k)
                  => body[k] = IdCall(IdOf(m.dependencyMap[j].v))

(***************************************************************************)
(* C9.  A rewrite step for dependency specifier s changes only require     *)
(* call sites whose specifier is exactly s; every other token of the text  *)
(* is left as it was.                                                      *)
(***************************************************************************)
C9_SpecifierExact ==
    [][(pc = "serialize" /\ serI' = serI /\ depJ' = depJ + 1) =>
          /\ Len(code') = Len(code)
          /\ \A k \in 1..Len(code) :
                code'[k] /= code[k] =>
                    /\ IsStrRequire(code[k])
                    /\ code[k].arg = CurrentDep.k]_vars

(***************************************************************************)
(* C11.  When the serializer is at a (specifier, path) pair of a module    *)
(* and the pattern built for the specifier matches no call site of the     *)
(* text it holds, its next step fails the build with a serialization       *)
(* error and nothing is written or printed.                                *)
(***************************************************************************)
C11_NoMatchIsFatal ==
    [][(/\ pc = "serialize"
        /\ serI <= Len(modules)
        /\ depJ <= Len(Current.v.dependencyMap)
        /\ \A k \in 1..Len(code) : ~PatternMatches(CurrentDep.k, code[k]))
       => (pc' = "failed" /\ error' = "serialization" /\ emitted' = "none")]_vars

(***************************************************************************)
(* C12.  Once the transformer has thrown for a module, the build is in its *)
(* transform stage or has failed, and it does fail: with a transform error *)
(* naming a module whose transformer threw, the serializer never having    *)
(* started and nothing written or printed.  The serializer runs only when  *)
(* the transformer has succeeded for every module of the table, whatever   *)
(* the order in which the calls settled.                                   *)
(***************************************************************************)
\* The transformer threw for module p.
TransformerThrew(p) == tasks[p].state = "settled" /\ tasks[p].outcome.kind = "throws"

\* The transformer returned for module p.
TransformerSucceeded(p) ==
    tasks[p].state = "settled" /\ tasks[p].outcome.kind \in {"code", "nocode"}

C17_TransformFileNeverRejects ==
    \A p \in DOMAIN tasks :
        tasks[p].state = "settled" =>
            LET o == tasks[p].outcome
                r == tasks[p].result
            IN /\ r.settled = "resolved"
               /\ o.kind = "throws" =>
                     /\ r.value.hasErrorMessage
                     /\ r.value.errorMessage = o.message
                     /\ r.value.code = <<>>
               /\ o.kind = "code" =>
                     /\ ~r.value.hasErrorMessage
                     /\ r.value.code = o.code
               /\ o.kind = "nocode" =>
                     /\ ~r.value.hasErrorMessage
                     /\ r.value.code = tasks[p].input

\* Three calls have settled: the transformer threw for one, returned a text
\* for one, and returned no code for one whose input is not empty.
C17_Witness ==
    \E p, q, r \in DOMAIN tasks :
        /\ tasks[p].state = "settled" /\ tasks[p].outcome.kind = "throws"
        /\ tasks[q].state = "settled" /\ tasks[q].outcome.kind = "code"
        /\ tasks[q].outcome.code /= tasks[q].input
        /\ tasks[r].state = "settled" /\ tasks[r].outcome.kind = "nocode"
        /\ tasks[r].input /= <<>>

(***************************************************************************)
(* C13.  No step of the serializer changes the module table: every         *)
(* record's id, code and dependency map stay as the graph loop left them.  *)
(* The assembled bundle is therefore the text that serializing the table   *)
(* as it stands yields again.                                              *)
(***************************************************************************)
\* The text of record m of table ms after the rewrite for each pair of its
\* dependency map, taken in the map's order.
BodyOf(ms, m) ==
    LET body[j \in 0..Len(m.dependencyMap)] ==
            IF j = 0 THEN m.code
            ELSE Replace(body[j - 1], m.dependencyMap[j].k,
                         MapGet(ms, m.dependencyMap[j].v).id)
    IN body[Len(m.dependencyMap)]

\* The bundle a serialization of table ms yields.
BundleOf(ms) ==
    <<RuntimeSnippet>>
    \o [i \in 1..Len(ms) |->
           wrapModule(ms[Len(ms) + 1 - i].v.id, BodyOf(ms, ms[Len(ms) + 1 - i].v))]
    \o <<Bootstrap>>

C13_SerializationReadsOnly ==
    /\ [][pc = "serialize" => modules' = modules]_vars
    /\ [](pc \in {"assembled", "done"} => output = BundleOf(modules))

\* A bundle of three modules is out, and the serializer rewrote the text of
\* one of them: the registered body is not the record's code.
C13_Witness ==
    /\ pc = "done"
    /\ Len(modules) = 3
    /\ \E i \in 1..Len(modules) :
          output[Len(modules) - modules[i].v.id + 1].code /= modules[i].v.code

(***************************************************************************)
(* C15.  A step of the graph loop that dequeues a path already in the      *)
(* visited set removes the path from the queue and does nothing else: it   *)
(* enqueues nothing and leaves the visited set, the module table (every    *)
(* record's id and dependency map with it) and the id counter as they      *)
(* were.                                                                   *)
(***************************************************************************)
C15_IdempotentRevisit ==
    [][(pc = "build" /\ queue /= <<>> /\ Head(queue) \in seen) =>
          /\ queue' = Tail(queue)
          /\ seen' = seen
          /\ modules' = modules
          /\ id' = id
          /\ pc' = "build"]_vars

\* The loop has dequeued every path of a file system in which two modules
\* require a third and all three are recorded: the second request for the
\* third was a revisit.
C15_Witness ==
    /\ pc = "build"
    /\ queue = <<>>
    /\ Len(modules) = 3
    /\ \E p, m1, m2 \in MapKeys(modules) :
          m1 /= m2 /\ p /= m1 /\ p /= m2 /\ p \in DepValues(m1) /\ p \in DepValues(m2)

(***************************************************************************)
(* C16.  At the start of every iteration of the graph loop the visited set *)
(* is the key set of the module table, the id counter is the number of     *)
(* recorded modules and every recorded id is below the counter; through    *)
(* every step a recorded module keeps its id, and no two recorded modules  *)
(* ever have the same id.                                                  *)
(***************************************************************************)
C16_LoopInvariant ==
    /\ [](pc = "build" =>
             /\ seen = MapKeys(modules)
             /\ id = Len(modules)
             /\ \A i \in 1..Len(modules) : modules[i].v.id < id)
    /\ [](\A i, j \in 1..Len(modules) : modules[i].v.id = modules[j].v.id => i = j)
    /\ [][\A p \in MapKeys(modules) :
             MapHas(modules', p) /\ MapGet(modules', p).id = MapGet(modules, p).id]_vars

\* An iteration starts with two modules recorded and two paths waiting, one
\* of them already visited.
C16_Witness ==
    /\ pc = "build"
    /\ Len(modules) = 2
    /\ Len(queue) = 2
    /\ \E i, j \in 1..Len(queue) : queue[i] \in seen /\ queue[j] \notin seen

(***************************************************************************)
(* C14.  In the bundle's runtime the module of every running factory has   *)
(* its instance in the cache, and no factory is invoked more than once.  A *)
(* require of a module whose factory is still running returns that         *)
(* module's exports as they then are, without invoking a factory; and the  *)
(* initial require of id 0 returns, on every registry, circular ones       *)
(* included.                                                               *)
(***************************************************************************)
\* The factory of module n is running.
Running(n) == \E i \in 1..Len(stack) : stack[i].id = n

\* The initial require has returned.
EntryReturned == stack = <<>> /\ 0 \in DOMAIN cache

C14_RuntimeCachesBeforeInvoking ==
    /\ [](\A i \in 1..Len(stack) : stack[i].id \in DOMAIN cache)
    /\ [](\A n \in DOMAIN invocations : invocations[n] <= 1)
    /\ [][(/\ stack /= <<>>
           /\ Top.pos <= Len(registry[Top.id])
           /\ Running(registry[Top.id][Top.pos])) =>
             /\ invocations' = invocations
             /\ Len(stack') = Len(stack)
             /\ stack'[Len(stack)].pos = Top.pos + 1
             /\ stack'[Len(stack)].got =
                   Append(Top.got, [id |-> registry[Top.id][Top.pos],
                                    exports |-> cache[registry[Top.id][Top.pos]].exports])]_vars
    /\ <>EntryReturned
    /\ [](EntryReturned =>
             \A n \in DOMAIN cache : cache[n].exports = Len(registry[n]))

\* A's factory requires B and B's factory requires A: B has got A's exports
\* while they were partial, and each factory was invoked once.
C14_Witness ==
    /\ Len(stack) = 2
    /\ stack[1].id = 0
    /\ \E k \in 1..Len(stack[2].got) :
          /\ stack[2].got[k].id = 0
          /\ stack[2].got[k].exports < Len(registry[0])
    /\ invocations[0] = 1
    /\ invocations[stack[2].id] = 1
    /\ stack[2].id /= 0

=============================================================================
